---- MODULE Spec2Model ----
(***************************************************************************)
(* Block tree model, nesting validator and workspace serialization of the  *)
(* Python block code editor (block_models.py, workspace_widget.py,         *)
(* settings_loader.py).                                                    *)
(*                                                                         *)
(* A block (CodeBlock) is an identifier in Ids.  A slot (BlockInputSlot)   *)
(* is the pair <<owner block, input name>>.  The Qt parent of a block      *)
(* widget is kept because move_up/move_down and deleteLater depend on it.  *)
(***************************************************************************)
EXTENDS Integers, Sequences, FiniteSets, TLC

\* ------------------------------------------------------------------ bounds
\* identifiers for blocks; the blocks the workspace handlers create in one
\* run; the length of a body or else body
MaxBlocks == 4
MaxCreated == 2
MaxChildren == 3

Ids == 1 .. MaxBlocks
None == 0
NoSlot == <<0, "">>

\* ---------------------------------------------------- configuration (data)
\* The block definitions document read by SettingsLoader.reload_all.  Three
\* block types cover the flag combinations CodeBlock.__init__ reads.
Types == {"If", "While", "Value"}
UnknownType == "Unknown"

\* three more types, used where code is generated: a container whose
\* definition has no code_template, a block whose template names a
\* placeholder the way the definitions format documents it ({tag}), and a
\* block with direct_code_enabled
AllTypes == Types \cup {"Group", "Log", "Raw"}

block_definitions ==
    [t \in AllTypes |->
        CASE t = "If" ->
               [inputs |-> <<[name |-> "condition", type |-> "slot", default |-> "True"]>>,
                has_children |-> TRUE, has_else_children |-> TRUE,
                output_enabled |-> FALSE, direct_code_enabled |-> FALSE]
          [] t = "While" ->
               [inputs |-> <<[name |-> "condition", type |-> "slot", default |-> "True"]>>,
                has_children |-> TRUE, has_else_children |-> FALSE,
                output_enabled |-> FALSE, direct_code_enabled |-> FALSE]
          [] t = "Group" ->
               [inputs |-> <<>>,
                has_children |-> TRUE, has_else_children |-> FALSE,
                output_enabled |-> FALSE, direct_code_enabled |-> FALSE]
          [] t = "Log" ->
               [inputs |-> <<[name |-> "text", type |-> "text", default |-> "0"]>>,
                has_children |-> FALSE, has_else_children |-> FALSE,
                output_enabled |-> FALSE, direct_code_enabled |-> FALSE]
          [] t = "Raw" ->
               [inputs |-> <<[name |-> "code", type |-> "text", default |-> "x = 1"]>>,
                has_children |-> FALSE, has_else_children |-> FALSE,
                output_enabled |-> FALSE, direct_code_enabled |-> TRUE]
          [] OTHER ->
               [inputs |-> <<[name |-> "text", type |-> "text", default |-> "0"]>>,
                has_children |-> FALSE, has_else_children |-> FALSE,
                output_enabled |-> TRUE, direct_code_enabled |-> FALSE]]

\* A template is the list of the pieces str.format sees: literal text and
\* replacement fields; a field is its dotted path ({inputs.text} is the
\* path <<"inputs", "text">>, {tag} is <<"tag">>).
Lit(text) == [kind |-> "lit", text |-> text, path |-> <<>>]
Field(path) == [kind |-> "field", text |-> "", path |-> path]

\* code_template, output_value and else_template of the definitions
templates ==
    [t \in AllTypes |->
        CASE t = "If" ->
               [code_template |-> <<Lit("if "), Field(<<"inputs", "condition">>), Lit(":")>>,
                output_value |-> <<>>, else_template |-> "else:"]
          [] t = "While" ->
               [code_template |-> <<Lit("while "), Field(<<"inputs", "condition">>), Lit(":")>>,
                output_value |-> <<>>, else_template |-> ""]
          [] t = "Group" ->
               [code_template |-> <<>>, output_value |-> <<>>, else_template |-> ""]
          [] t = "Log" ->
               [code_template |-> <<Lit("log("), Field(<<"inputs", "text">>),
                                    Field(<<"inputs", "level">>), Lit(", "),
                                    Field(<<"tag">>), Lit(")")>>,
                output_value |-> <<>>, else_template |-> ""]
          [] t = "Raw" ->
               [code_template |-> <<Lit("run("), Field(<<"inputs", "code">>), Lit(")")>>,
                output_value |-> <<>>, else_template |-> ""]
          [] OTHER ->
               [code_template |-> <<Field(<<"inputs", "text">>)>>,
                output_value |-> <<>>, else_template |-> ""]]

\* SettingsLoader.get_block_definition: the definition, or None (here FALSE
\* in the found field) for a type the document does not have.
get_block_definition(t) ==
    IF t \in AllTypes THEN [found |-> TRUE, def |-> block_definitions[t]]
    ELSE [found |-> FALSE, def |-> block_definitions["Value"]]

InputNames == {"condition", "text", "code"}
TextValues == {"0", "x"}

\* the names of the inputs of a definition, and those that are slots
InputsOf(t) == {block_definitions[t].inputs[i].name : i \in DOMAIN block_definitions[t].inputs}
SlotInputsOf(t) ==
    {block_definitions[t].inputs[i].name :
        i \in {j \in DOMAIN block_definitions[t].inputs : block_definitions[t].inputs[j].type = "slot"}}
DefaultOf(t, n) ==
    LET i == CHOOSE j \in DOMAIN block_definitions[t].inputs : block_definitions[t].inputs[j].name = n
    IN block_definitions[t].inputs[i].default

\* ------------------------------------------------------------------- state
VARIABLES
    created,       \* blocks constructed so far (CodeBlock.__init__ ran)
    deleted,       \* blocks whose widget was destroyed by deleteLater
    block_type,    \* CodeBlock.block_type
    blocks,        \* WorkspaceWidget.blocks
    parent_slot,   \* CodeBlock.parent_slot (NoSlot for None)
    nested_block,  \* BlockInputSlot.nested_block (None for no block)
    child_blocks,  \* CodeBlock.child_blocks
    else_blocks,   \* CodeBlock.else_blocks
    qparent,       \* QWidget.parent() of the block widget
    input_values,  \* CodeBlock.input_values
    toggle_checked, \* blocks whose toggle_code_button is checked
    code_editor,   \* the text of CodeBlock.code_editor
    rules,         \* SettingsLoader.block_capabilities["nesting_rules"]
    code_preview,  \* the text OutputPanel.code_preview shows
    code_changed_since_save,  \* MainWindow.code_changed_since_save
    current_file_path,        \* MainWindow.current_file_path ("" for None)
    files,         \* the project files on disk, by path
    config_files,  \* the watched configuration files on disk
    last_modified, \* SettingsLoader.last_modified
    settings_data, \* what reload_all last read from each configuration file
    lastOp         \* the last call made and what it returned

\* the block tree; the main window and the disk; the settings files
tree == <<created, deleted, block_type, blocks, parent_slot, nested_block,
          child_blocks, else_blocks, qparent, input_values, toggle_checked, code_editor>>
window == <<code_preview, code_changed_since_save, current_file_path, files>>
watched == <<config_files, last_modified, settings_data>>
outside == <<window, watched>>

vars == <<tree, rules, window, watched, lastOp>>

Slots == Ids \X InputNames

\* the model state as one record, so that a handler that calls other methods
\* is the composition of their effects
Cur ==
    [created |-> created, deleted |-> deleted, block_type |-> block_type,
     blocks |-> blocks, parent_slot |-> parent_slot, nested_block |-> nested_block,
     child_blocks |-> child_blocks, else_blocks |-> else_blocks,
     qparent |-> qparent, input_values |-> input_values,
     toggle_checked |-> toggle_checked, code_editor |-> code_editor]

Op(op, ret) == [op |-> op, ret |-> ret, args |-> <<>>]

\* ---------------------------------------------------------- list helpers
Range(s) == {s[i] : i \in DOMAIN s}

\* list.index(x): the first position of x
IndexOf(s, x) == CHOOSE i \in DOMAIN s : s[i] = x /\ \A j \in 1 .. (i - 1) : s[j] # x

\* list.remove(x): drops the first occurrence of x
ListRemove(s, x) ==
    LET i == IndexOf(s, x)
    IN [k \in 1 .. (Len(s) - 1) |-> IF k < i THEN s[k] ELSE s[k + 1]]

\* list.insert(i, x) with a 0-based position i <= len
ListInsert(s, i, x) ==
    [k \in 1 .. (Len(s) + 1) |-> IF k <= i THEN s[k] ELSE IF k = i + 1 THEN x ELSE s[k - 1]]

\* ------------------------------------------------------ nesting validator
\* dict.get(key, default) on a table modelled as a function
Get(f, k, d) == IF k \in DOMAIN f THEN f[k] ELSE d

EmptyTable == [x \in {} |-> {}]


\* json.load keeps whatever a document holds.  JsonNull is a JSON null
\* standing where the document should have an object.
JsonNull == [x \in {"null"} |-> "null"]

\* a value of a JSON document that is null where an object is expected
IsNull(v) == "null" \in DOMAIN v

\* SettingsLoader.get_nesting_rules.  The allowed and denied lists are used
\* only through membership and emptiness, so they are sets here.
get_nesting_rules(rl, block_type_, input_name) ==
    LET block_rules == Get(rl, block_type_, EmptyTable)
        input_rules == Get(block_rules, input_name, EmptyTable)
    IN [allowed |-> Get(input_rules, "allowed", {}),
        denied |-> Get(input_rules, "denied", {})]

\* is_nesting_allowed in which an empty allowed list allows nothing
is_nesting_allowed_EmptyAllowsNothing(rl, parent_block_type, parent_input, child_block_type) ==
    LET r == get_nesting_rules(rl, parent_block_type, parent_input)
    IN IF child_block_type \in r.denied THEN FALSE
       ELSE child_block_type \in r.allowed

\* is_nesting_allowed that never reads the allowed list
is_nesting_allowed_DeniedOnly(rl, parent_block_type, parent_input, child_block_type) ==
    LET r == get_nesting_rules(rl, parent_block_type, parent_input)
    IN child_block_type \notin r.denied

\* is_nesting_allowed with the allowed list consulted before the denied list
is_nesting_allowed_AllowedFirst(rl, parent_block_type, parent_input, child_block_type) ==
    LET r == get_nesting_rules(rl, parent_block_type, parent_input)
    IN IF child_block_type \in r.allowed THEN TRUE
       ELSE IF child_block_type \in r.denied THEN FALSE
       ELSE r.allowed = {}

is_nesting_allowed(rl, parent_block_type, parent_input, child_block_type) ==
    LET r == get_nesting_rules(rl, parent_block_type, parent_input)
    IN IF child_block_type \in r.denied THEN FALSE
       ELSE IF r.allowed = {} \/ child_block_type \in r.allowed THEN TRUE
       ELSE FALSE

\* a nesting-rules table with one entry
OneRule(pt, inp, allowed, denied) ==
    [x \in {pt} |-> [y \in {inp} |->
        [z \in {"allowed", "denied"} |-> IF z = "allowed" THEN allowed ELSE denied]]]

\* the table the workspace model runs under: a Value block is denied in the
\* condition of a While block, every other nesting has no rule
WorkspaceRuleTables == {OneRule("While", "condition", {}, {"Value"})}

\* ------------------------------------------------------- BlockInputSlot
\* a slot exists when its owner was constructed and the owner's definition
\* has a slot input of that name (CodeBlock.setup_inputs)
SlotsOf(st) ==
    {s \in Slots : s[1] \in st.created /\ s[2] \in SlotInputsOf(st.block_type[s[1]])}

\* can_accept_block without the comparison of the two block types
can_accept_block_RulesOnly(st, rl, s, b) ==
    is_nesting_allowed(rl, st.block_type[s[1]], s[2], st.block_type[b])

\* BlockInputSlot.can_accept_block; parent_block_type is the owner's type
can_accept_block(st, rl, s, b) ==
    IF st.block_type[b] = st.block_type[s[1]] THEN FALSE
    ELSE is_nesting_allowed(rl, st.block_type[s[1]], s[2], st.block_type[b])

\* BlockInputSlot.remove_block: the nested block loses its parent_slot, the
\* slot is emptied and valueChanged(input_name, default_value) reaches
\* CodeBlock.on_slot_value_changed of the owner.  layout.removeWidget does
\* not change the Qt parent, and nothing is added to the workspace list.
slot_remove_block(st, s) ==
    IF st.nested_block[s] # None
    THEN [st EXCEPT !.parent_slot[st.nested_block[s]] = NoSlot,
                    !.nested_block[s] = None,
                    !.input_values[s[1]][s[2]] = DefaultOf(st.block_type[s[1]], s[2])]
    ELSE st

\* BlockInputSlot.add_block
slot_add_block(st, rl, s, b) ==
    IF ~can_accept_block(st, rl, s, b) THEN st
    ELSE LET st1 == IF st.nested_block[s] # None THEN slot_remove_block(st, s) ELSE st
         IN [st1 EXCEPT !.nested_block[s] = b,
                        !.parent_slot[b] = s,
                        !.qparent[b] = [kind |-> "slot", id |-> s[1]]]

\* ------------------------------------------------------------ CodeBlock
has_children(st, b) == block_definitions[st.block_type[b]].has_children
has_else(st, b) == block_definitions[st.block_type[b]].has_else_children

\* CodeBlock.__init__ with setup_inputs: a block of type t under the Qt
\* parent qp, every input at its default value
NewBlock(st, nb, t, qp) ==
    [st EXCEPT !.created = @ \cup {nb},
               !.block_type[nb] = t,
               !.parent_slot[nb] = NoSlot,
               !.child_blocks[nb] = <<>>,
               !.else_blocks[nb] = <<>>,
               !.qparent[nb] = qp,
               !.input_values[nb] = [n \in InputsOf(t) |-> DefaultOf(t, n)]]

\* add_child_block without the capability guard
add_child_block_Unguarded(st, p, c, is_else) ==
    IF is_else
    THEN [st |-> [st EXCEPT !.else_blocks[p] = Append(@, c),
                            !.qparent[c] = [kind |-> "block", id |-> p]],
          ret |-> TRUE]
    ELSE [st |-> [st EXCEPT !.child_blocks[p] = Append(@, c),
                            !.qparent[c] = [kind |-> "block", id |-> p]],
          ret |-> TRUE]

\* CodeBlock.add_child_block; addWidget makes the parent block the Qt parent
add_child_block(st, p, c, is_else) ==
    IF ~has_children(st, p) /\ ~(is_else /\ has_else(st, p))
    THEN [st |-> st, ret |-> FALSE]
    ELSE IF is_else /\ has_else(st, p)
    THEN [st |-> [st EXCEPT !.else_blocks[p] = Append(@, c),
                            !.qparent[c] = [kind |-> "block", id |-> p]],
          ret |-> TRUE]
    ELSE [st |-> [st EXCEPT !.child_blocks[p] = Append(@, c),
                            !.qparent[c] = [kind |-> "block", id |-> p]],
          ret |-> TRUE]

\* CodeBlock.remove_child_block; removeWidget leaves the Qt parent as it is
remove_child_block(st, p, c) ==
    IF c \in Range(st.child_blocks[p])
    THEN [st |-> [st EXCEPT !.child_blocks[p] = ListRemove(@, c)], ret |-> TRUE]
    ELSE IF c \in Range(st.else_blocks[p])
    THEN [st |-> [st EXCEPT !.else_blocks[p] = ListRemove(@, c)], ret |-> TRUE]
    ELSE [st |-> st, ret |-> FALSE]

\* a move_up that puts the block at the front of the list
MovedUp_ToFront(seq, b) ==
    LET index == IndexOf(seq, b) - 1
    IN IF index > 0 THEN ListInsert(ListRemove(seq, b), 0, b) ELSE seq

\* the list after "remove(self); insert(index - 1, self)" when index > 0
MovedUp(seq, b) ==
    LET index == IndexOf(seq, b) - 1
    IN IF index > 0 THEN ListInsert(ListRemove(seq, b), index - 1, b) ELSE seq

\* the list after "remove(self); insert(index + 1, self)" when index < len - 1
MovedDown(seq, b) ==
    LET index == IndexOf(seq, b) - 1
    IN IF index < Len(seq) - 1 THEN ListInsert(ListRemove(seq, b), index + 1, b) ELSE seq

\* CodeBlock.move_up: acts on the lists of the Qt parent when that is a block
move_up(st, b) ==
    IF st.qparent[b].kind # "block" THEN st
    ELSE LET p == st.qparent[b].id
         IN IF b \in Range(st.child_blocks[p])
            THEN [st EXCEPT !.child_blocks[p] = MovedUp(@, b)]
            ELSE IF b \in Range(st.else_blocks[p])
            THEN [st EXCEPT !.else_blocks[p] = MovedUp(@, b)]
            ELSE st

\* CodeBlock.move_down
move_down(st, b) ==
    IF st.qparent[b].kind # "block" THEN st
    ELSE LET p == st.qparent[b].id
         IN IF b \in Range(st.child_blocks[p])
            THEN [st EXCEPT !.child_blocks[p] = MovedDown(@, b)]
            ELSE IF b \in Range(st.else_blocks[p])
            THEN [st EXCEPT !.else_blocks[p] = MovedDown(@, b)]
            ELSE st

\* CodeBlock.on_input_changed
on_input_changed(st, b, input_name, value) ==
    [st EXCEPT !.input_values[b][input_name] = value]

\* QObject.deleteLater: the widget and every widget below it in the Qt
\* parent chain are destroyed (a slot is a child widget of its owner)
RECURSIVE QtSubtree(_, _)
QtSubtree(st, S) ==
    LET N == S \cup {c \in st.created : st.qparent[c].kind # "container" /\ st.qparent[c].id \in S}
    IN IF N = S THEN S ELSE QtSubtree(st, N)

deleteLater(st, b) == [st EXCEPT !.deleted = @ \cup QtSubtree(st, {b})]

\* CodeBlock.to_json.  depth bounds the recursion: Python's own recursion
\* limit plays that part on a cyclic structure.
RECURSIVE to_json(_, _, _)
to_json(st, b, depth) ==
    IF depth = 0 THEN [x \in {"RecursionError"} |-> TRUE]
    ELSE
    LET t == st.block_type[b]
        input(n) ==
            IF n \in SlotInputsOf(t) /\ st.nested_block[<<b, n>>] # None
            THEN [type |-> "slot",
                  nested_block |-> to_json(st, st.nested_block[<<b, n>>], depth - 1)]
            ELSE [type |-> "value", value |-> Get(st.input_values[b], n, "")]
        keys == {"block_type", "inputs"}
                  \cup (IF has_children(st, b) /\ st.child_blocks[b] # <<>>
                        THEN {"child_blocks"} ELSE {})
                  \cup (IF has_else(st, b) /\ st.else_blocks[b] # <<>>
                        THEN {"else_blocks"} ELSE {})
    IN [k \in keys |->
          CASE k = "block_type" -> t
            [] k = "inputs" -> [n \in InputsOf(t) |-> input(n)]
            [] k = "child_blocks" ->
                 [i \in DOMAIN st.child_blocks[b] |-> to_json(st, st.child_blocks[b][i], depth - 1)]
            [] OTHER ->
                 [i \in DOMAIN st.else_blocks[b] |-> to_json(st, st.else_blocks[b][i], depth - 1)]]

\* ------------------------------------------------------ WorkspaceWidget
\* WorkspaceWidget.add_block: block is None when the type has no definition
add_block(st, t) ==
    IF ~get_block_definition(t).found THEN [st |-> st, block |-> None]
    ELSE LET nb == Cardinality(st.created) + 1
             st1 == NewBlock(st, nb, t, [kind |-> "container", id |-> None])
         IN [st |-> [st1 EXCEPT !.blocks = Append(@, nb)], block |-> nb]

\* WorkspaceWidget.add_block_to_slot
add_block_to_slot(st, rl, b, s) ==
    IF ~can_accept_block(st, rl, s, b) THEN [st |-> st, ret |-> FALSE]
    ELSE LET st1 == IF b \in Range(st.blocks) /\ st.parent_slot[b] = NoSlot
                    THEN [st EXCEPT !.blocks = ListRemove(@, b)] ELSE st
         IN [st |-> slot_add_block(st1, rl, s, b), ret |-> TRUE]

\* WorkspaceWidget.remove_block
remove_block(st, b) ==
    LET st1 == IF st.parent_slot[b] # NoSlot THEN slot_remove_block(st, st.parent_slot[b]) ELSE st
    IN IF b \in Range(st1.blocks)
       THEN [st |-> deleteLater([st1 EXCEPT !.blocks = ListRemove(@, b)], b), ret |-> TRUE]
       ELSE [st |-> st1, ret |-> FALSE]

\* WorkspaceWidget.clear_workspace: remove_block on a copy of the list, then
\* blocks.clear()
RECURSIVE RemoveAll(_, _)
RemoveAll(st, todo) ==
    IF todo = <<>> THEN st ELSE RemoveAll(remove_block(st, Head(todo)).st, Tail(todo))

clear_workspace(st) == [RemoveAll(st, st.blocks) EXCEPT !.blocks = <<>>]

\* WorkspaceWidget.handle_slot_drop
handle_slot_drop(st, rl, s, drop_type, t, b) ==
    IF drop_type = "new"
    THEN IF t = "" THEN st
         ELSE LET a == add_block(st, t)
              IN IF a.block = None THEN a.st
                 ELSE slot_add_block([a.st EXCEPT !.blocks = ListRemove(@, a.block)], rl, s, a.block)
    ELSE IF drop_type = "existing"
    THEN IF b \in Range(st.blocks) THEN add_block_to_slot(st, rl, b, s).st ELSE st
    ELSE st

\* WorkspaceWidget.save_workspace: the top-level blocks that are in no slot,
\* in list order (the position entry is not part of the tree and is left out)
save_workspace(st) ==
    LET top == SelectSeq(st.blocks, LAMBDA b : st.parent_slot[b] = NoSlot)
    IN [blocks |-> [i \in DOMAIN top |-> to_json(st, top[i], MaxBlocks + 1)]]

\* WorkspaceWidget.load_workspace: clears, then add_block(block_type) for
\* every entry; nothing else of an entry is kept.  The loop reads
\* block_data.get("block_type") and position_data.get("x"): an entry that is
\* no object, or whose position is no object, raises AttributeError, which
\* ends the loop; the one try block around it returns False.
entry_raises(block_data) ==
    \/ IsNull(block_data)
    \/ IsNull(Get(block_data, "position", EmptyTable))

RECURSIVE LoadEntries(_, _)
LoadEntries(st, entries) ==
    IF entries = <<>> THEN [st |-> st, raised |-> FALSE]
    ELSE IF entry_raises(Head(entries)) THEN [st |-> st, raised |-> TRUE]
    ELSE LoadEntries(add_block(st, Get(Head(entries), "block_type", "")).st, Tail(entries))

load_workspace(st, data) ==
    LET r == LoadEntries(clear_workspace(st), Get(data, "blocks", <<>>))
    IN [st |-> r.st, ret |-> ~r.raised]

\* ------------------------------------------------------- tree structure
\* the blocks a block holds: in its slots, its body and its else body
Kids(st, b) ==
    {st.nested_block[s] : s \in {x \in SlotsOf(st) : x[1] = b /\ st.nested_block[x] # None}}
        \cup Range(st.child_blocks[b]) \cup Range(st.else_blocks[b])

RECURSIVE Below(_, _)
Below(st, S) ==
    LET N == S \cup UNION {Kids(st, b) : b \in S}
    IN IF N = S THEN S ELSE Below(st, N)

\* the blocks strictly below b
Descendants(st, b) == Below(st, Kids(st, b))

\* nothing the workspace list reaches lies below itself
Acyclic(st) == \A b \in Below(st, Range(st.blocks)) : b \notin Descendants(st, b)

Live(st) == st.created \ st.deleted
LiveSlots(st) == {s \in SlotsOf(st) : s[1] \in Live(st)}

\* the state a handler leaves behind
Commit(st) ==
    /\ created' = st.created
    /\ deleted' = st.deleted
    /\ block_type' = st.block_type
    /\ blocks' = st.blocks
    /\ parent_slot' = st.parent_slot
    /\ nested_block' = st.nested_block
    /\ child_blocks' = st.child_blocks
    /\ else_blocks' = st.else_blocks
    /\ qparent' = st.qparent
    /\ input_values' = st.input_values
    /\ toggle_checked' = st.toggle_checked
    /\ code_editor' = st.code_editor

\* ------------------------------------------------------------ text lines
\* the position of the first line end of a text, 0 when it has none
RECURSIVE NewlineFrom(_, _)
NewlineFrom(text, i) ==
    IF i > Len(text) THEN 0
    ELSE IF SubSeq(text, i, i) = "\n" THEN i
    ELSE NewlineFrom(text, i + 1)

FirstNewline(text) == NewlineFrom(text, 1)

\* str.splitlines()
RECURSIVE splitlines(_)
splitlines(text) ==
    IF text = "" THEN <<>>
    ELSE LET i == FirstNewline(text)
         IN IF i = 0 THEN <<text>>
            ELSE <<SubSeq(text, 1, i - 1)>> \o splitlines(SubSeq(text, i + 1, Len(text)))

IsSpace(ch) == ch \in {" ", "\n", "\t"}

\* str.lstrip(), str.rstrip() and str.strip()
RECURSIVE lstrip(_)
lstrip(text) ==
    IF text # "" /\ IsSpace(SubSeq(text, 1, 1)) THEN lstrip(SubSeq(text, 2, Len(text))) ELSE text

RECURSIVE rstrip(_)
rstrip(text) ==
    IF text # "" /\ IsSpace(SubSeq(text, Len(text), Len(text)))
    THEN rstrip(SubSeq(text, 1, Len(text) - 1)) ELSE text

strip(text) == lstrip(rstrip(text))

\* -------------------------------------------------------- code generation
\* Code is text: strings with \n line ends, built with \o as the code
\* builds them with + and f-strings.
RECURSIVE Spaces(_)
Spaces(k) == IF k = 0 THEN "" ELSE " " \o Spaces(k - 1)

\* "    " * indentation_level
Indent(level) == Spaces(4 * level)

StartsWith(text, prefix) ==
    Len(text) >= Len(prefix) /\ SubSeq(text, 1, Len(prefix)) = prefix

EndsWith(text, suffix) ==
    Len(text) >= Len(suffix) /\ SubSeq(text, Len(text) - Len(suffix) + 1, Len(text)) = suffix

\* str.format(inputs = DotDict, outputs = DotDict) over the pieces of a
\* template.  The only names format can look up are inputs and outputs; a
\* DotDict answers "" for a key it does not have; any other field name is a
\* KeyError.  No block of the model has outputs.
RECURSIVE Format(_, _)
Format(template, input_values_) ==
    IF template = <<>> THEN [raised |-> FALSE, value |-> ""]
    ELSE LET part == Head(template)
             rest == Format(Tail(template), input_values_)
             here ==
                IF part.kind = "lit" THEN [raised |-> FALSE, value |-> part.text]
                ELSE IF part.path[1] = "inputs" /\ Len(part.path) = 2
                THEN [raised |-> FALSE, value |-> Get(input_values_, part.path[2], "")]
                ELSE IF part.path[1] = "outputs" /\ Len(part.path) = 2
                THEN [raised |-> FALSE, value |-> ""]
                ELSE [raised |-> TRUE, value |-> "'" \o part.path[1] \o "'"]
         IN IF here.raised THEN here
            ELSE IF rest.raised THEN rest
            ELSE [raised |-> FALSE, value |-> here.value \o rest.value]

\* utils.safely_format_template
safely_format_template(template, input_values_) ==
    LET r == Format(template, input_values_)
    IN IF r.raised THEN "# Error formatting template: " \o r.value ELSE r.value

\* utils.format_error_message
format_error_message(error, block_type_) ==
    (IF block_type_ # "" THEN "Error in " \o block_type_ \o ": " ELSE "Error: ") \o error

InputTypeOf(t, n) ==
    LET i == CHOOSE j \in DOMAIN block_definitions[t].inputs : block_definitions[t].inputs[j].name = n
    IN block_definitions[t].inputs[i].type

\* QLineEdit.text() of the widget of a text input.  Once Qt has destroyed
\* the widget the call raises RuntimeError; between deleteLater and the
\* destruction it still answers.  swept says which of the two holds.
DeletedMessage == "wrapped C/C++ object of type QLineEdit has been deleted"

widget_text(st, b, n, swept) ==
    IF swept /\ b \in st.deleted
    THEN [raised |-> TRUE, value |-> DeletedMessage]
    ELSE [raised |-> FALSE, value |-> st.input_values[b][n]]

RECURSIVE get_output_value(_, _, _)
RECURSIVE get_input_value(_, _, _, _)

\* BlockInputSlot.get_value: the output of the nested block, else the
\* slot's default_value (a slot reads no Qt object, so it never fails)
slot_get_value(st, s, swept) ==
    IF st.nested_block[s] # None
    THEN get_output_value(st, st.nested_block[s], swept)
    ELSE DefaultOf(st.block_type[s[1]], s[2])

\* CodeBlock.get_input_value
get_input_value(st, b, n, swept) ==
    LET t == st.block_type[b]
    IN IF n \notin InputsOf(t) THEN ""
       ELSE IF InputTypeOf(t, n) = "slot" THEN slot_get_value(st, <<b, n>>, swept)
       ELSE LET r == widget_text(st, b, n, swept)
            IN IF r.raised THEN "<error: " \o r.value \o ">" ELSE r.value

\* CodeBlock._process_template
process_template(st, b, template, swept) ==
    safely_format_template(template,
        [n \in InputsOf(st.block_type[b]) |-> get_input_value(st, b, n, swept)])

\* CodeBlock.get_output_value
get_output_value(st, b, swept) ==
    LET t == st.block_type[b]
    IN IF ~block_definitions[t].output_enabled THEN ""
       ELSE IF templates[t].output_value # <<>>
       THEN process_template(st, b, templates[t].output_value, swept)
       ELSE process_template(st, b, templates[t].code_template, swept)

\* CodeBlock.__init__ copies code_template and the flags from the definition
\* and never sets an else_template attribute, so hasattr(self,
\* 'else_template') in generate_code is False for every block
has_else_template(st, b) == FALSE

RECURSIVE generate_code(_, _, _, _)

\* "for child in ...: result += child.generate_code(level)": the code of
\* the members in order, up to a member whose call raises
RECURSIVE children_code(_, _, _, _)
children_code(st, seq, level, swept) ==
    IF seq = <<>> THEN [raised |-> FALSE, value |-> ""]
    ELSE LET c == generate_code(st, Head(seq), level, swept)
         IN IF c.raised THEN [raised |-> TRUE, value |-> ""]
            ELSE LET rest == children_code(st, Tail(seq), level, swept)
                 IN [raised |-> rest.raised, value |-> c.value \o rest.value]

\* the statements inside "Process child blocks": the body, then the else
\* branch
body_code(st, b, level, swept) ==
    IF ~has_children(st, b) THEN [raised |-> FALSE, value |-> ""]
    ELSE LET pass == [raised |-> FALSE, value |-> Indent(level) \o "    pass\n"]
             kids == IF st.child_blocks[b] # <<>>
                     THEN children_code(st, st.child_blocks[b], level + 1, swept)
                     ELSE pass
         IN IF kids.raised THEN kids
            ELSE IF has_else(st, b) /\ has_else_template(st, b)
            THEN LET els == IF st.else_blocks[b] # <<>>
                            THEN children_code(st, st.else_blocks[b], level + 1, swept)
                            ELSE pass
                 IN [raised |-> els.raised,
                     value |-> kids.value \o Indent(level)
                                \o templates[st.block_type[b]].else_template \o "\n"
                                \o els.value]
            ELSE kids

\* the last step of generate_code: at level 0 a result that starts with
\* four spaces loses them (result.replace("    ", "", 1))
strip_first_indent(result, level) ==
    IF level = 0 /\ StartsWith(result, "    ")
    THEN SubSeq(result, 5, Len(result))
    ELSE result

\* "Handle direct code blocks differently": the lines of the input named
\* code, each non-blank one behind the indentation
RECURSIVE DirectLines(_, _)
DirectLines(lines, level) ==
    IF lines = <<>> THEN ""
    ELSE (IF strip(Head(lines)) # "" THEN Indent(level) \o Head(lines) \o "\n" ELSE "\n")
         \o DirectLines(Tail(lines), level)

direct_code(code_input, level) == DirectLines(splitlines(code_input), level)

\* generate_code with every try/except taken out: a failing read of a
\* widget leaves the method as an exception
generate_code_NoHandlers(st, b, level, swept) ==
    LET t == st.block_type[b]
        texts == {n \in InputsOf(t) : InputTypeOf(t, n) # "slot"}
        input_values_ ==
            [n \in InputsOf(t) |->
                IF InputTypeOf(t, n) = "slot" THEN slot_get_value(st, <<b, n>>, swept)
                ELSE widget_text(st, b, n, swept).value]
        direct == block_definitions[t].direct_code_enabled
        processed == IF direct THEN [raised |-> FALSE, value |-> ""]
                     ELSE Format(templates[t].code_template, input_values_)
        own == IF direct THEN direct_code(Get(input_values_, "code", ""), level)
               ELSE IF processed.value = "" THEN ""
               ELSE Indent(level) \o processed.value \o "\n"
        body == body_code(st, b, level, swept)
    IN IF \E n \in texts : widget_text(st, b, n, swept).raised
       THEN [raised |-> TRUE, value |-> DeletedMessage]
       ELSE IF processed.raised THEN processed
       ELSE IF body.raised THEN body
       ELSE [raised |-> FALSE, value |-> strip_first_indent(own \o body.value, level)]

\* generate_code from "Process template with input values" on: the
\* template line, the body, and the last step, for input values already
\* resolved
render_block(st, b, level, swept, input_values_) ==
    LET t == st.block_type[b]
        processed == safely_format_template(templates[t].code_template, input_values_)
        own == IF block_definitions[t].direct_code_enabled
               THEN direct_code(Get(input_values_, "code", ""), level)
               ELSE IF processed = "" THEN "" ELSE Indent(level) \o processed \o "\n"
        body == body_code(st, b, level, swept)
        result ==
            IF body.raised
            THEN own \o body.value \o Indent(level) \o "    # Error processing child blocks\n"
                     \o Indent(level) \o "    pass\n"
            ELSE own \o body.value
    IN strip_first_indent(result, level)

\* generate_code without the handler around the read of one input: the
\* exception reaches the outer handler, which returns one comment line
generate_code_OuterHandlerOnly(st, b, level, swept) ==
    LET t == st.block_type[b]
        texts == {n \in InputsOf(t) : InputTypeOf(t, n) # "slot"}
        input_values_ ==
            [n \in InputsOf(t) |->
                IF InputTypeOf(t, n) = "slot" THEN slot_get_value(st, <<b, n>>, swept)
                ELSE widget_text(st, b, n, swept).value]
    IN IF \E n \in texts : widget_text(st, b, n, swept).raised
       THEN [raised |-> FALSE,
             value |-> "# " \o format_error_message(DeletedMessage, t) \o "\n"]
       ELSE [raised |-> FALSE, value |-> render_block(st, b, level, swept, input_values_)]

\* CodeBlock.generate_code.  The result says whether the call raised; the
\* handlers are the code's try/except blocks: per input (the marker), around
\* the template, around the children, and around the whole method.  The
\* blocks of the model have no direct code editor and are not of the
\* specially quoted Print and Input types; no input value holds a line
\* break.
generate_code(st, b, level, swept) ==
    LET t == st.block_type[b]
        input_values_ ==
            [n \in InputsOf(t) |->
                IF InputTypeOf(t, n) = "slot" THEN slot_get_value(st, <<b, n>>, swept)
                ELSE LET r == widget_text(st, b, n, swept)
                     IN IF r.raised THEN "\"<error: " \o r.value \o ">\"" ELSE r.value]
    IN [raised |-> FALSE, value |-> render_block(st, b, level, swept, input_values_)]

\* no block at or below b lies below itself
TreeAt(st, b) == \A d \in Below(st, {b}) : d \notin Descendants(st, d)

\* ----------------------------------------------------------- update_code
\* the blocks that code is generated for: those the list holds outside any
\* slot, and everything nested below them
Generated(st) == Below(st, {b \in Range(st.blocks) : st.parent_slot[b] = NoSlot})

\* '\n'.join(lines)
RECURSIVE Join(_)
Join(lines) ==
    IF lines = <<>> THEN ""
    ELSE IF Len(lines) = 1 THEN Head(lines)
    ELSE Head(lines) \o "\n" \o Join(Tail(lines))

\* update_code on the code of one block: the first line without its
\* indentation, the later lines as they are, blank ones emptied
processed_code(block_code) ==
    LET lines == splitlines(strip(block_code))
    IN Join([i \in DOMAIN lines |->
                IF i = 1 THEN lstrip(lines[1])
                ELSE IF strip(lines[i]) # "" THEN lines[i] ELSE ""])

\* what generate_code answers on a structure that holds itself: Python
\* stops at its recursion limit and the handlers turn the RecursionError
\* into text; RecursionText stands for that text
RecursionText == "# <RecursionError>\n"

RECURSIVE BlocksCode(_, _, _)
BlocksCode(st, seq, swept) ==
    IF seq = <<>> THEN ""
    ELSE LET block_code == IF TreeAt(st, Head(seq))
                           THEN generate_code(st, Head(seq), 0, swept).value
                           ELSE RecursionText
             text == IF block_code = "" THEN "" ELSE processed_code(block_code)
         IN (IF text = "" THEN "" ELSE text \o "\n") \o BlocksCode(st, Tail(seq), swept)

\* every line without trailing whitespace, behind a line end
RECURSIVE FinalCode(_)
FinalCode(lines) ==
    IF lines = <<>> THEN "" ELSE rstrip(Head(lines)) \o "\n" \o FinalCode(Tail(lines))

\* WorkspaceWidget.update_code: the text codeChanged carries.  The blocks
\* are sorted by their vertical position; no handler of the model moves a
\* block, so the (stable) sort leaves the list in its order.
update_code(st, swept) ==
    FinalCode(splitlines(BlocksCode(st,
        SelectSeq(st.blocks, LAMBDA b : st.parent_slot[b] = NoSlot), swept)))

\* ----------------------------------------------------------- OutputPanel
\* the number of spaces a line starts with
RECURSIVE IndentOf(_)
IndentOf(line) ==
    IF line # "" /\ SubSeq(line, 1, 1) = " " THEN 1 + IndentOf(SubSeq(line, 2, Len(line))) ELSE 0

\* the empty lines at the beginning are dropped
RECURSIVE DropBlank(_)
DropBlank(lines) ==
    IF lines # <<>> /\ strip(Head(lines)) = "" THEN DropBlank(Tail(lines)) ELSE lines

Reverse(seq) == [i \in DOMAIN seq |-> seq[Len(seq) + 1 - i]]

\* str.split('\n'): one more (empty) piece than splitlines when the text
\* ends with a line end
split(text) ==
    IF text = "" \/ EndsWith(text, "\n") THEN splitlines(text) \o <<"">> ELSE splitlines(text)

\* OutputPanel.clean_code
clean_code(code) ==
    IF strip(code) = "" THEN ""
    ELSE LET pieces == split(code)
             stripped == [i \in DOMAIN pieces |-> rstrip(pieces[i])]
             lines == Reverse(DropBlank(Reverse(DropBlank(stripped))))
             filled == {i \in DOMAIN lines : strip(lines[i]) # ""}
             first_indent ==
                 CHOOSE k \in {IndentOf(lines[i]) : i \in filled} :
                     \A i \in filled : k <= IndentOf(lines[i])
         IN Join([i \in DOMAIN lines |->
                     IF first_indent > 0 /\ i \in filled
                     THEN SubSeq(lines[i], first_indent + 1, Len(lines[i]))
                     ELSE lines[i]])

\* OutputPanel.get_code_preview: every line with content loses its leading
\* whitespace
RECURSIVE CleanLines(_)
CleanLines(lines) ==
    IF lines = <<>> THEN ""
    ELSE (IF strip(Head(lines)) # "" THEN lstrip(Head(lines)) \o "\n" ELSE "\n")
         \o CleanLines(Tail(lines))

get_code_preview(preview) == CleanLines(splitlines(preview))

\* MainWindow.on_run up to exec: the text handed to exec, "" when there is
\* no code to run
on_run(preview) ==
    LET code == get_code_preview(preview)
    IN IF strip(code) = "" THEN "" ELSE CleanLines(splitlines(code))

\* MainWindow.on_code_changed, the slot of codeChanged: the preview shows
\* the cleaned code (OutputPanel.set_code_preview; the highlighting and the
\* line-number cells of the HTML are left out) and the project has unsaved
\* changes.  A widget destroyed before the handler ran can already be
\* gone or still answer.
CodeChanged(st) ==
    /\ \E swept \in BOOLEAN :
          /\ swept => Generated(st) \cap st.deleted # {}
          /\ code_preview' = clean_code(update_code(st, swept))
    /\ code_changed_since_save' = TRUE
    /\ UNCHANGED <<current_file_path, files>>

\* a handler that reaches update_code when emits holds, and else leaves
\* the window as it is
Emits(emits, st) == IF emits THEN CodeChanged(st) ELSE UNCHANGED window

\* ----------------------------------------------------------------- Init
EmptyFcn == [x \in {} |-> ""]

\* WorkspaceWidget.__init__: no block exists
EmptyWorkspace ==
    [created |-> {}, deleted |-> {}, block_type |-> [b \in Ids |-> ""],
     blocks |-> <<>>, parent_slot |-> [b \in Ids |-> NoSlot],
     nested_block |-> [s \in Slots |-> None],
     child_blocks |-> [b \in Ids |-> <<>>], else_blocks |-> [b \in Ids |-> <<>>],
     qparent |-> [b \in Ids |-> [kind |-> "container", id |-> None]],
     input_values |-> [b \in Ids |-> EmptyFcn],
     toggle_checked |-> {}, code_editor |-> [b \in Ids |-> ""]]

\* the variables hold the state st
StateIs(st) ==
    /\ created = st.created
    /\ deleted = st.deleted
    /\ block_type = st.block_type
    /\ blocks = st.blocks
    /\ parent_slot = st.parent_slot
    /\ nested_block = st.nested_block
    /\ child_blocks = st.child_blocks
    /\ else_blocks = st.else_blocks
    /\ qparent = st.qparent
    /\ input_values = st.input_values
    /\ toggle_checked = st.toggle_checked
    /\ code_editor = st.code_editor

\* ---------------------------------------------------- SettingsLoader
\* the three files SettingsLoader watches
ConfigFiles == {"app_settings.json", "block_definitions.json", "block_capabilities.json"}

\* the modification times a run goes through
MaxMtime == 3

\* A configuration file on disk: whether it exists, its modification time,
\* whether json.load accepts it, and whether it was written since the loader
\* last opened it.  What a file holds is named by its modification time; 0
\* names the defaults.
ConfigFile(exists, mtime, valid, unread) ==
    [exists |-> exists, mtime |-> mtime, valid |-> valid, unread |-> unread]

\* SettingsLoader._load_json_file: the data, the default when the file is
\* missing or does not parse; last_modified is set only after a successful
\* json.load
load_json_file(disk, lm, data, f) ==
    IF disk[f].exists /\ disk[f].valid
    THEN [lm |-> [lm EXCEPT ![f] = disk[f].mtime], data |-> [data EXCEPT ![f] = disk[f].mtime]]
    ELSE [lm |-> lm, data |-> [data EXCEPT ![f] = 0]]

\* the files as the loader leaves them: each existing one was opened
opened(disk) == [f \in ConfigFiles |-> [disk[f] EXCEPT !.unread = FALSE]]

\* SettingsLoader.reload_all
reload_all(disk, lm, data) ==
    LET a == load_json_file(disk, lm, data, "app_settings.json")
        b == load_json_file(disk, a.lm, a.data, "block_definitions.json")
    IN load_json_file(disk, b.lm, b.data, "block_capabilities.json")

\* SettingsLoader.__init__: last_modified all 0, then reload_all
loader_init(disk) ==
    reload_all(disk, [f \in ConfigFiles |-> 0], [f \in ConfigFiles |-> 0])

\* SettingsLoader.check_for_changes
check_for_changes(disk, lm, data) ==
    LET newer == {f \in ConfigFiles : disk[f].exists /\ disk[f].mtime > lm[f]}
        lm1 == [f \in ConfigFiles |-> IF f \in newer THEN disk[f].mtime ELSE lm[f]]
    IN IF newer # {}
       THEN LET r == reload_all(disk, lm1, data)
            IN [changed |-> TRUE, lm |-> r.lm, data |-> r.data]
       ELSE [changed |-> FALSE, lm |-> lm, data |-> data]

\* the loader constructed on a disk
WatchedIs(disk) ==
    /\ config_files = opened(disk)
    /\ last_modified = loader_init(disk).lm
    /\ settings_data = loader_init(disk).data

\* every configuration file present and well-formed
GoodDisk == [f \in ConfigFiles |-> ConfigFile(TRUE, 1, TRUE, FALSE)]

\* ---------------------------------------------------------- MainWindow
Paths == {"a.pbcp", "b.pbcp"}
NoPath == ""

\* a path with no file
Absent == [kind |-> "absent"]

\* MainWindow.__init__: no file, nothing to save, an empty preview
WindowInit ==
    /\ code_preview = ""
    /\ code_changed_since_save = FALSE
    /\ current_file_path = NoPath
    /\ files = [p \in Paths |-> Absent]

OutsideInit == WindowInit /\ WatchedIs(GoodDisk)

\* the window over a workspace that was built and in which a block was then
\* moved: on_block_moved calls update_code, so the preview shows the code
\* of the tree st
ShownIs(st) ==
    /\ code_preview \in {clean_code(update_code(st, swept)) :
                            swept \in {x \in BOOLEAN : x => Generated(st) \cap st.deleted # {}}}
    /\ code_changed_since_save = TRUE
    /\ current_file_path = NoPath
    /\ files = [p \in Paths |-> Absent]
    /\ WatchedIs(GoodDisk)

TreeInit == StateIs(EmptyWorkspace)

Init ==
    /\ TreeInit
    /\ rules \in WorkspaceRuleTables
    /\ lastOp = Op("init", TRUE)
    /\ OutsideInit

\* -------------------------------------------------------------- actions
\* A handler that reaches update_code(), itself or through the
\* contentChanged, valueChanged and inputChanged signals, emits codeChanged
\* with the code of the tree it leaves behind.  add_child_block and
\* remove_child_block call nothing and emit nothing.
\*
\* The methods are called the way a caller that respects the tree would call
\* them: a block handed to add_child_block, BlockInputSlot.add_block or
\* add_block_to_slot is one that no slot and no body holds at that moment.
\* The handlers the user interface drives (handle_slot_drop, remove_block,
\* move_up, move_down) take any block on screen.

\* b is held by some slot or by some body
Held(st, b) ==
    \/ st.parent_slot[b] # NoSlot
    \/ \E s \in SlotsOf(st) : st.nested_block[s] = b
    \/ \E p \in st.created : b \in Range(st.child_blocks[p]) \cup Range(st.else_blocks[p])

AddBlock(t) ==
    /\ Cardinality(created) < MaxCreated
    /\ LET r == add_block(Cur, t)
       IN /\ Commit(r.st)
          /\ lastOp' = Op("add_block", r.block # None)
          /\ Emits(r.block # None, r.st)
    /\ UNCHANGED <<rules, watched>>

SlotAddBlock(s, b) ==
    /\ s \in LiveSlots(Cur) /\ b \in Live(Cur)
    /\ ~Held(Cur, b) /\ b \notin Range(blocks)
    /\ Commit(slot_add_block(Cur, rules, s, b))
    /\ lastOp' = Op("slot.add_block", can_accept_block(Cur, rules, s, b))
    /\ Emits(can_accept_block(Cur, rules, s, b), slot_add_block(Cur, rules, s, b))
    /\ UNCHANGED <<rules, watched>>

SlotRemoveBlock(s) ==
    /\ s \in LiveSlots(Cur)
    /\ Commit(slot_remove_block(Cur, s))
    /\ lastOp' = Op("slot.remove_block", nested_block[s] # None)
    /\ Emits(nested_block[s] # None, slot_remove_block(Cur, s))
    /\ UNCHANGED <<rules, watched>>

AddBlockToSlot(b, s) ==
    /\ s \in LiveSlots(Cur) /\ b \in Live(Cur)
    /\ ~Held(Cur, b)
    /\ LET r == add_block_to_slot(Cur, rules, b, s)
       IN /\ Commit(r.st)
          /\ lastOp' = Op("add_block_to_slot", r.ret)
          /\ Emits(r.ret, r.st)
    /\ UNCHANGED <<rules, watched>>

HandleSlotDropNew(s, t) ==
    /\ s \in LiveSlots(Cur)
    /\ Cardinality(created) < MaxCreated
    /\ LET st == handle_slot_drop(Cur, rules, s, "new", t, None)
           nb == Cardinality(created) + 1
       IN /\ Commit(st)
          /\ lastOp' = Op("handle_slot_drop.new", st.nested_block[s] = nb)
          /\ Emits(t # "" /\ get_block_definition(t).found, st)
    /\ UNCHANGED <<rules, watched>>

HandleSlotDropExisting(s, b) ==
    /\ s \in LiveSlots(Cur) /\ b \in Live(Cur)
    /\ LET st == handle_slot_drop(Cur, rules, s, "existing", "", b)
       IN /\ Commit(st)
          /\ lastOp' = Op("handle_slot_drop.existing",
                          b \in Range(blocks) /\ can_accept_block(Cur, rules, s, b))
          /\ Emits(b \in Range(blocks) /\ can_accept_block(Cur, rules, s, b), st)
    /\ UNCHANGED <<rules, watched>>

RemoveBlock(b) ==
    /\ b \in Live(Cur)
    /\ LET r == remove_block(Cur, b)
       IN /\ Commit(r.st)
          /\ lastOp' = Op("remove_block", r.ret)
          /\ Emits(r.ret \/ (parent_slot[b] # NoSlot /\ nested_block[parent_slot[b]] # None),
                   r.st)
    /\ UNCHANGED <<rules, watched>>

AddChildBlock(p, c, is_else) ==
    /\ p \in Live(Cur) /\ c \in Live(Cur) /\ p # c
    /\ ~Held(Cur, c) /\ p \notin Below(Cur, {c})
    /\ Len(child_blocks[p]) < MaxChildren /\ Len(else_blocks[p]) < MaxChildren
    /\ LET r == add_child_block(Cur, p, c, is_else)
       IN /\ Commit(r.st)
          /\ lastOp' = Op("add_child_block", r.ret)
    /\ UNCHANGED <<rules, outside>>

RemoveChildBlock(p, c) ==
    /\ p \in Live(Cur) /\ c \in Live(Cur)
    /\ LET r == remove_child_block(Cur, p, c)
       IN /\ Commit(r.st)
          /\ lastOp' = Op("remove_child_block", r.ret)
    /\ UNCHANGED <<rules, outside>>

MoveUp(b) ==
    /\ b \in Live(Cur)
    /\ Commit(move_up(Cur, b))
    /\ lastOp' = Op("move_up", TRUE)
    /\ Emits(move_up(Cur, b) # Cur, move_up(Cur, b))
    /\ UNCHANGED <<rules, watched>>

MoveDown(b) ==
    /\ b \in Live(Cur)
    /\ Commit(move_down(Cur, b))
    /\ lastOp' = Op("move_down", TRUE)
    /\ Emits(move_down(Cur, b) # Cur, move_down(Cur, b))
    /\ UNCHANGED <<rules, watched>>

OnInputChanged(b, n, v) ==
    /\ b \in Live(Cur)
    /\ n \in InputsOf(block_type[b]) \ SlotInputsOf(block_type[b])
    /\ Commit(on_input_changed(Cur, b, n, v))
    /\ lastOp' = Op("on_input_changed", TRUE)
    /\ Emits(TRUE, on_input_changed(Cur, b, n, v))
    /\ UNCHANGED <<rules, watched>>

\* load_workspace(save_workspace()) on a workspace whose tree has no cycle
SaveThenLoad ==
    /\ Acyclic(Cur)
    /\ LET data == save_workspace(Cur)
       IN /\ Cardinality(created) + Len(data.blocks) <= MaxCreated
          /\ LET r == load_workspace(Cur, data)
             IN /\ Commit(r.st)
                /\ lastOp' = Op("load_workspace", r.ret)
                /\ Emits(TRUE, r.st)
    /\ UNCHANGED <<rules, watched>>

\* attaching to and detaching from slots, and deletion
NextSlots ==
    \/ \E t \in Types \cup {UnknownType} : AddBlock(t)
    \/ \E s \in Slots, b \in Ids : SlotAddBlock(s, b)
    \/ \E s \in Slots : SlotRemoveBlock(s)
    \/ \E s \in Slots, b \in Ids : AddBlockToSlot(b, s)
    \/ \E s \in Slots, t \in Types \cup {UnknownType} : HandleSlotDropNew(s, t)
    \/ \E s \in Slots, b \in Ids : HandleSlotDropExisting(s, b)
    \/ \E b \in Ids : RemoveBlock(b)

SpecSlots == Init /\ [][NextSlots]_vars

\* bodies and else bodies, reordering, and deletion
NextChildren ==
    \/ \E t \in Types : AddBlock(t)
    \/ \E p \in Ids, c \in Ids, is_else \in BOOLEAN : AddChildBlock(p, c, is_else)
    \/ \E p \in Ids, c \in Ids : RemoveChildBlock(p, c)
    \/ \E b \in Ids : MoveUp(b)
    \/ \E b \in Ids : MoveDown(b)
    \/ \E b \in Ids : RemoveBlock(b)

SpecChildren == Init /\ [][NextChildren]_vars

\* bodies and else bodies alone: the calls that fill, empty and reorder them
NextBodies ==
    \/ \E t \in Types : AddBlock(t)
    \/ \E p \in Ids, c \in Ids, is_else \in BOOLEAN : AddChildBlock(p, c, is_else)
    \/ \E p \in Ids, c \in Ids : RemoveChildBlock(p, c)
    \/ \E b \in Ids : MoveUp(b)
    \/ \E b \in Ids : MoveDown(b)

SpecBodies == Init /\ [][NextBodies]_vars

\* building a tree, then saving and loading it
NextSave ==
    \/ \E t \in Types : AddBlock(t)
    \/ \E s \in Slots, b \in Ids : HandleSlotDropExisting(s, b)
    \/ \E p \in Ids, c \in Ids, is_else \in BOOLEAN : AddChildBlock(p, c, is_else)
    \/ \E b \in Ids, n \in InputNames, v \in TextValues : OnInputChanged(b, n, v)
    \/ SaveThenLoad

SpecSave == Init /\ [][NextSave]_vars

\* ------------------------------------------------- reordering in a body
\* The workspace after add_block for one container block (block 1) and for
\* MaxBlocks - 1 Value blocks, followed by a series of add_child_block calls
\* on block 1, each for a different Value block.
RECURSIVE AddBlocks(_, _)
AddBlocks(st, ts) ==
    IF ts = <<>> THEN st ELSE AddBlocks(add_block(st, Head(ts)).st, Tail(ts))

RECURSIVE AddChildren(_, _, _)
AddChildren(st, p, calls) ==
    IF calls = <<>> THEN st
    ELSE AddChildren(add_child_block(st, p, Head(calls)[1], Head(calls)[2]).st, p, Tail(calls))

ContainerTypes == {t \in Types : block_definitions[t].has_children}

\* the series of (child, is_else) arguments: no child twice, the children
\* in the order in which they were created
ChildCalls ==
    {cs \in UNION {[1 .. k -> (Ids \ {1}) \X BOOLEAN] : k \in 0 .. MaxChildren} :
        \A i, j \in DOMAIN cs : i < j => cs[i][1] < cs[j][1]}

InitReorder ==
    /\ \E t \in ContainerTypes, cs \in ChildCalls :
          LET st == AddChildren(AddBlocks(EmptyWorkspace,
                                          <<t>> \o [i \in 1 .. (MaxBlocks - 1) |-> "Value"]),
                                1, cs)
          IN StateIs(st) /\ ShownIs(st)
    /\ rules \in WorkspaceRuleTables
    /\ lastOp = Op("init", TRUE)

NextReorder ==
    \/ \E b \in Ids : MoveUp(b)
    \/ \E b \in Ids : MoveDown(b)

SpecReorder == InitReorder /\ [][NextReorder]_vars

\* --------------------------------------------- the validator on its own
\* nesting-rules tables: no entry at all, or one entry for the condition of
\* an If block with any allowed and any denied list
RuleTables ==
    {EmptyTable} \cup
    {OneRule("If", "condition", allowed, denied) :
        allowed \in SUBSET Types, denied \in SUBSET Types}

InitRules ==
    /\ TreeInit
    /\ rules \in RuleTables
    /\ lastOp = Op("init", TRUE)
    /\ OutsideInit

\* a call of SettingsLoader.is_nesting_allowed
IsNestingAllowed(pt, inp, ct) ==
    /\ lastOp' = [op |-> "is_nesting_allowed",
                  ret |-> is_nesting_allowed(rules, pt, inp, ct),
                  args |-> <<pt, inp, ct>>]
    /\ UNCHANGED <<tree, rules, outside>>

NextRules ==
    \E pt \in Types, inp \in InputNames, ct \in Types \cup {UnknownType} :
        IsNestingAllowed(pt, inp, ct)

SpecRules == InitRules /\ [][NextRules]_vars

\* ------------------------------------------------------------ properties
\* the state after a step, as one record
CurNext ==
    [created |-> created', deleted |-> deleted', block_type |-> block_type',
     blocks |-> blocks', parent_slot |-> parent_slot', nested_block |-> nested_block',
     child_blocks |-> child_blocks', else_blocks |-> else_blocks',
     qparent |-> qparent', input_values |-> input_values',
     toggle_checked |-> toggle_checked', code_editor |-> code_editor']

\* the places that hold block b: positions of the workspace list, slots of
\* live blocks, positions of the body and the else body of live blocks
Owners(st, b) ==
    {[kind |-> "top", owner |-> None, name |-> "", index |-> i] :
        i \in {j \in DOMAIN st.blocks : st.blocks[j] = b}}
    \cup {[kind |-> "slot", owner |-> s[1], name |-> s[2], index |-> 0] :
        s \in {x \in LiveSlots(st) : st.nested_block[x] = b}}
    \cup UNION {{[kind |-> "child", owner |-> p, name |-> "", index |-> i] :
        i \in {j \in DOMAIN st.child_blocks[p] : st.child_blocks[p][j] = b}} : p \in Live(st)}
    \cup UNION {{[kind |-> "else", owner |-> p, name |-> "", index |-> i] :
        i \in {j \in DOMAIN st.else_blocks[p] : st.else_blocks[p][j] = b}} : p \in Live(st)}

\* live blocks that nothing holds
Orphans(st) == {b \in Live(st) : Owners(st, b) = {}}

\* a well-formed block tree: no cycle, every live block held exactly once
WellFormed(st) ==
    /\ Acyclic(st)
    /\ \A b \in Live(st) : Cardinality(Owners(st, b)) = 1

AttachOps ==
    {"slot.add_block", "add_block_to_slot", "handle_slot_drop.new", "handle_slot_drop.existing"}

\* C1: for a well-formed block tree T in the workspace, load(save(T)) leaves
\* a workspace that saves to the same document as T: the same block types,
\* input values and nesting structure.
C1_RoundTrip ==
    [][(lastOp'.op = "load_workspace" /\ WellFormed(Cur) /\ SaveThenLoad)
          => save_workspace(CurNext) = save_workspace(Cur)]_vars

\* C2: every live block is held by exactly one owner: one position of the
\* workspace's top-level list, one input slot, or one position of one
\* child/else sequence.
C2_SingleOwner == \A b \in Live(Cur) : Cardinality(Owners(Cur, b)) = 1

\* C3: no slot holds a block of its owner's type, and an attempt to put
\* such a block into the slot fails through every attach path
\* (BlockInputSlot.add_block, add_block_to_slot, handle_slot_drop for an
\* existing block and for a new block).
C3_NoSelfNesting ==
    /\ \A s \in SlotsOf(Cur) :
          nested_block[s] # None => block_type[nested_block[s]] # block_type[s[1]]
    /\ \A s \in LiveSlots(Cur), b \in Live(Cur) :
          block_type[b] = block_type[s[1]] =>
             /\ slot_add_block(Cur, rules, s, b).nested_block[s] = nested_block[s]
             /\ ~add_block_to_slot(Cur, rules, b, s).ret
             /\ add_block_to_slot(Cur, rules, b, s).st.nested_block[s] = nested_block[s]
             /\ handle_slot_drop(Cur, rules, s, "existing", "", b).nested_block[s]
                   = nested_block[s]
    /\ \A s \in LiveSlots(Cur) :
          Cardinality(created) < MaxBlocks =>
             handle_slot_drop(Cur, rules, s, "new", block_type[s[1]], None).nested_block[s]
                = nested_block[s]

\* a same-type attach was refused: the last call was an attach that failed,
\* and a live block of the type of an empty slot's owner exists
C3_Witness ==
    /\ lastOp.op \in AttachOps /\ ~lastOp.ret
    /\ \E s \in LiveSlots(Cur), b \in Live(Cur) :
          b # s[1] /\ block_type[b] = block_type[s[1]] /\ nested_block[s] = None

\* C4: a rejected attach mutates nothing: the slots keep their blocks, every
\* block keeps its owner, and no new orphan block is left in the workspace.
C4_RejectedAttachNoMutation ==
    [][(lastOp'.op \in AttachOps /\ ~lastOp'.ret) =>
          /\ nested_block' = nested_block
          /\ blocks' = blocks
          /\ \A b \in Live(Cur) : Owners(CurNext, b) = Owners(Cur, b)
          /\ Orphans(CurNext) \subseteq Orphans(Cur)]_vars

\* C5: BlockInputSlot.remove_block on an occupied slot empties the slot and
\* makes the removed block a live top-level block of the workspace; on an
\* empty slot it changes nothing and reports nothing removed.
C5_DetachPromotes ==
    [][\A s \in Slots : SlotRemoveBlock(s) =>
          IF nested_block[s] # None
          THEN /\ nested_block'[s] = None
               /\ nested_block[s] \in Live(CurNext)
               /\ nested_block[s] \in Range(blocks')
          ELSE CurNext = Cur /\ ~lastOp'.ret]_vars

\* C6: remove_block(b) reports success wherever b is (top-level, in a slot,
\* in a child/else sequence), and afterwards neither b nor any block that
\* was below b is in the top-level list, in a slot or in a sequence.
C6_RemoveAnywhere ==
    [][\A b \in Ids : (Owners(Cur, b) # {} /\ RemoveBlock(b)) =>
          /\ lastOp'.ret
          /\ \A d \in {b} \cup Descendants(Cur, b) : Owners(CurNext, d) = {}]_vars

\* C7: add_child_block(c, is_else) on p fails and changes no sequence when
\* the capability is missing (has_children for is_else = FALSE,
\* has_else_children for is_else = TRUE); otherwise it succeeds and appends
\* c at the end of the sequence is_else names, leaving the other as it was.
C7_CapabilityCheck ==
    [][\A p \in Ids, c \in Ids, is_else \in BOOLEAN : AddChildBlock(p, c, is_else) =>
          LET capable == IF is_else THEN has_else(Cur, p) ELSE has_children(Cur, p)
          IN IF ~capable
             THEN ~lastOp'.ret /\ child_blocks' = child_blocks /\ else_blocks' = else_blocks
             ELSE /\ lastOp'.ret
                  /\ IF is_else
                     THEN /\ else_blocks' = [else_blocks EXCEPT ![p] = Append(@, c)]
                          /\ child_blocks' = child_blocks
                     ELSE /\ child_blocks' = [child_blocks EXCEPT ![p] = Append(@, c)]
                          /\ else_blocks' = else_blocks]_vars

\* C8: a block with has_children false has an empty child_blocks and a
\* block with has_else_children false has an empty else_blocks, whatever
\* add_child_block, remove_child_block, move_up and move_down calls were made.
C8_ContainerFlags ==
    \A b \in created :
       /\ ~has_children(Cur, b) => child_blocks[b] = <<>>
       /\ ~has_else(Cur, b) => else_blocks[b] = <<>>

\* add_child_block was refused by a block that is no container while some
\* other live block could have taken the child
C8_Witness ==
    /\ lastOp.op = "add_child_block" /\ ~lastOp.ret
    /\ \E b \in Live(Cur) : ~has_children(Cur, b) /\ ~has_else(Cur, b)
    /\ \E b \in Live(Cur) : has_children(Cur, b)

\* the sequence of parent p that holds b, and its name
SeqOf(st, p, b) ==
    IF b \in Range(st.child_blocks[p]) THEN st.child_blocks[p] ELSE st.else_blocks[p]

\* seq2 is seq with positions i and j exchanged
SwappedAt(seq, seq2, i, j) ==
    /\ Len(seq2) = Len(seq)
    /\ seq2[i] = seq[j] /\ seq2[j] = seq[i]
    /\ \A k \in DOMAIN seq : k \notin {i, j} => seq2[k] = seq[k]

\* the effect of a reorder of b by delta (-1 up, +1 down) within its parent
Reordered(b, delta) ==
    IF qparent[b].kind # "block" THEN CurNext = Cur
    ELSE LET p == qparent[b].id
             inChild == b \in Range(child_blocks[p])
             inElse == b \in Range(else_blocks[p])
             seq == SeqOf(Cur, p, b)
             seq2 == IF inChild THEN child_blocks'[p] ELSE else_blocks'[p]
             i == IndexOf(seq, b)
         IN IF ~inChild /\ ~inElse THEN CurNext = Cur
            ELSE /\ IF i + delta \in DOMAIN seq
                    THEN SwappedAt(seq, seq2, i, i + delta)
                    ELSE seq2 = seq
                 /\ IF inChild THEN else_blocks' = else_blocks
                    ELSE child_blocks' = child_blocks
                 /\ \A q \in Ids \ {p} :
                       child_blocks'[q] = child_blocks[q] /\ else_blocks'[q] = else_blocks[q]
                 /\ blocks' = blocks /\ nested_block' = nested_block

\* C9: move_up / move_down of a block inside a child or else sequence
\* exchanges it with its previous / next neighbour, changes nothing when the
\* block is first / last, and leaves every other sequence as it was.
C9_Reorder ==
    [][\A b \in Ids : (MoveUp(b) => Reordered(b, -1)) /\ (MoveDown(b) => Reordered(b, 1))]_vars

\* a reorder acted on a sequence of three members and left it out of the
\* order in which the members were appended
C9_Witness ==
    /\ lastOp.op \in {"move_up", "move_down"}
    /\ \E p \in Live(Cur) :
          /\ Len(child_blocks[p]) = 3
          /\ \E i \in 1 .. 2 : child_blocks[p][i] > child_blocks[p][i + 1]

\* C10: is_nesting_allowed returns False for a block type that is in both
\* the allowed and the denied list of the (parent type, input name) pair.
C10_DenyPrecedence ==
    (/\ lastOp.op = "is_nesting_allowed"
     /\ LET pt == lastOp.args[1]
            inp == lastOp.args[2]
            ct == lastOp.args[3]
        IN /\ pt \in DOMAIN rules
           /\ inp \in DOMAIN rules[pt]
           /\ ct \in rules[pt][inp].allowed \cap rules[pt][inp].denied)
    => ~lastOp.ret

\* the validator was asked about a type that both lists name
C10_Witness ==
    /\ lastOp.op = "is_nesting_allowed" /\ ~lastOp.ret
    /\ \E a \in SUBSET Types, d \in SUBSET Types :
          /\ rules = OneRule("If", "condition", a, d)
          /\ lastOp.args[1] = "If" /\ lastOp.args[2] = "condition"
          /\ lastOp.args[3] \in a \cap d

\* the call the validator answered last, and the rule entry it looked up
CallParent == lastOp.args[1]
CallInput == lastOp.args[2]
CallChild == lastOp.args[3]
HasEntry == CallParent \in DOMAIN rules /\ CallInput \in DOMAIN rules[CallParent]
Entry == rules[CallParent][CallInput]

\* C11: when the allowed and the denied list of the (parent type, input
\* name) pair are both empty, is_nesting_allowed returns True for every
\* child type.
C11_UnrestrictedDefault ==
    (/\ lastOp.op = "is_nesting_allowed"
     /\ HasEntry
     /\ Entry.allowed = {} /\ Entry.denied = {})
    => lastOp.ret

\* the validator answered for a pair whose entry has two empty lists
C11_Witness ==
    /\ lastOp.op = "is_nesting_allowed" /\ lastOp.ret
    /\ rules = OneRule("If", "condition", {}, {})
    /\ CallParent = "If" /\ CallInput = "condition"

\* C12: when the allowed list of the pair is not empty, is_nesting_allowed
\* returns True exactly for the child types in allowed and not in denied.
C12_AllowList ==
    (/\ lastOp.op = "is_nesting_allowed"
     /\ HasEntry
     /\ Entry.allowed # {})
    => (lastOp.ret <=> CallChild \in Entry.allowed \ Entry.denied)

\* the validator refused a type that the non-empty allowed list does not
\* name and the denied list does not name either
C12_Witness ==
    /\ lastOp.op = "is_nesting_allowed" /\ ~lastOp.ret
    /\ HasEntry
    /\ Entry.allowed # {}
    /\ CallChild \notin Entry.allowed \cup Entry.denied

\* --------------------------------- the validator on any loaded document
\* get_nesting_rules calls .get on the value found for the block type and
\* on the value found for the input name; a null has no such method, and
\* the call raises AttributeError
get_nesting_rules_raises(rl, block_type_, input_name) ==
    LET block_rules == Get(rl, block_type_, EmptyTable)
    IN IF block_rules = JsonNull THEN TRUE
       ELSE Get(block_rules, input_name, EmptyTable) = JsonNull

\* tables _load_json_file can return: well-formed ones, one with a null for
\* a block type, one with a null for an input name
LoadedRuleTables ==
    {EmptyTable,
     OneRule("If", "condition", {}, {}),
     OneRule("If", "condition", {"Value"}, {}),
     OneRule("If", "condition", {}, {"Value"}),
     [x \in {"If"} |-> JsonNull],
     [x \in {"If"} |-> [y \in {"condition"} |-> JsonNull]]}

InitLoaded ==
    /\ TreeInit
    /\ rules \in LoadedRuleTables
    /\ lastOp = Op("init", TRUE)
    /\ OutsideInit

\* a call of SettingsLoader.is_nesting_allowed; the fourth argument entry
\* records whether the call returned or raised
IsNestingAllowedLoaded(pt, inp, ct) ==
    /\ lastOp' = IF get_nesting_rules_raises(rules, pt, inp)
                 THEN [op |-> "is_nesting_allowed", ret |-> FALSE,
                       args |-> <<pt, inp, ct, "AttributeError">>]
                 ELSE [op |-> "is_nesting_allowed",
                       ret |-> is_nesting_allowed(rules, pt, inp, ct),
                       args |-> <<pt, inp, ct, "returned">>]
    /\ UNCHANGED <<tree, rules, outside>>

NextLoaded ==
    \E pt \in Types, inp \in InputNames, ct \in Types \cup {UnknownType} :
        IsNestingAllowedLoaded(pt, inp, ct)

SpecLoaded == InitLoaded /\ [][NextLoaded]_vars

\* the pair has no well-formed entry in the table
NoRuleFor(rl, pt, inp) ==
    \/ pt \notin DOMAIN rl
    \/ rl[pt] = JsonNull
    \/ inp \notin DOMAIN rl[pt]
    \/ rl[pt][inp] = JsonNull

\* C13: is_nesting_allowed never raises and leaves the rules table as it
\* was, for every table the loader can hold; for a pair with no entry, or
\* with a malformed entry, it returns True.
C13_ValidatorTotal ==
    [][\A pt \in Types, inp \in InputNames, ct \in Types \cup {UnknownType} :
          IsNestingAllowedLoaded(pt, inp, ct) =>
             /\ rules' = rules
             /\ lastOp'.args[4] = "returned"
             /\ NoRuleFor(rules, pt, inp) => lastOp'.ret]_vars

\* the indentation levels generate_code is called with
MaxIndent == 1

\* a call of generate_code on a block on screen.  With no destroyed widget
\* in the tree the two values of swept are the same call, taken once.
GenerateCode(b, level, swept) ==
    /\ b \in Live(Cur)
    /\ TreeAt(Cur, b)
    /\ swept => Below(Cur, {b}) \cap deleted # {}
    /\ LET r == generate_code(Cur, b, level, swept)
       IN lastOp' = [op |-> "generate_code", ret |-> r.value,
                     args |-> <<b, level, swept, IF r.raised THEN "raised" ELSE "returned">>]
    /\ UNCHANGED <<tree, rules, outside>>

\* the block types the generation runs build trees from
GenTypes == AllTypes \ {"While"}

\* The trees code is generated for are built with the workspace's own
\* operations: add_block for one to MaxCreated blocks; then each block after
\* the first stays top-level or goes into an earlier block, as a member of
\* its body (add_child_block), of its else body, or into its condition slot
\* (handle_slot_drop of an existing block); then at most one remove_block.
Placements(i) == {<<"top", 0>>} \cup ({"child", "else", "slot"} \X (1 .. (i - 1)))

place_block(st, rl, i, placement) ==
    LET kind == placement[1]
        j == placement[2]
    IN CASE kind = "child" -> add_child_block(st, j, i, FALSE).st
         [] kind = "else" -> add_child_block(st, j, i, TRUE).st
         [] kind = "slot" ->
              IF <<j, "condition">> \in SlotsOf(st)
              THEN handle_slot_drop(st, rl, <<j, "condition">>, "existing", "", i)
              ELSE st
         [] OTHER -> st

RECURSIVE PlaceBlocks(_, _, _, _)
PlaceBlocks(st, rl, i, place) ==
    IF i \notin DOMAIN place THEN st
    ELSE PlaceBlocks(place_block(st, rl, i, place[i]), rl, i + 1, place)

BuiltTree(rl, types, place, removed) ==
    LET st == PlaceBlocks(AddBlocks(EmptyWorkspace, types), rl, 2, place)
    IN IF removed = 0 THEN st ELSE remove_block(st, removed).st

InitGen ==
    /\ rules \in WorkspaceRuleTables
    /\ \E k \in 1 .. MaxCreated :
          \E types \in [1 .. k -> GenTypes], removed \in 0 .. k :
             \E place \in {f \in [1 .. k -> Placements(k)] :
                              f[1] = <<"top", 0>> /\ \A i \in 2 .. k : f[i] \in Placements(i)} :
                \E st \in {BuiltTree(rules, types, place, removed)} :
                   StateIs(st) /\ ShownIs(st)
    /\ lastOp = Op("init", TRUE)

\* CodeBlock.toggle_code_mode, the slot of the checkable toggle_code_button
\* that setup_direct_code_editor gives a block with direct_code_enabled:
\* the click has flipped the button; on entering direct-code mode the
\* editor is filled with the stripped code of the block
ToggleCodeMode(b) ==
    /\ b \in Live(Cur)
    /\ block_definitions[block_type[b]].direct_code_enabled
    /\ TreeAt(Cur, b)
    /\ LET is_direct_code == b \notin toggle_checked
       IN /\ Commit([Cur EXCEPT
                       !.toggle_checked = IF is_direct_code THEN @ \cup {b} ELSE @ \ {b},
                       !.code_editor[b] =
                           IF is_direct_code
                           THEN strip(generate_code(Cur, b, 0, FALSE).value) ELSE @])
          /\ lastOp' = Op("toggle_code_mode", is_direct_code)
    /\ UNCHANGED <<rules, outside>>

NextGen ==
    \/ \E b \in Ids, level \in 0 .. MaxIndent, swept \in BOOLEAN : GenerateCode(b, level, swept)
    \/ \E b \in Ids : ToggleCodeMode(b)

SpecGen == InitGen /\ [][NextGen]_vars

\* text holds sub somewhere
Contains(text, sub) ==
    \E i \in 1 .. (Len(text) - Len(sub) + 1) : SubSeq(text, i, i + Len(sub) - 1) = sub

InputErrorMarker == "\"<error: " \o DeletedMessage \o ">\""

\* the same tree with every widget readable, in which each text input of a
\* destroyed block holds the marker as its text
WithMarkers(st) ==
    [st EXCEPT !.input_values =
        [d \in Ids |->
            IF d \in st.deleted
            THEN [n \in DOMAIN st.input_values[d] |->
                    IF InputTypeOf(st.block_type[d], n) = "slot" THEN st.input_values[d][n]
                    ELSE InputErrorMarker]
            ELSE st.input_values[d]]]

GenBlock == lastOp.args[1]
GenLevel == lastOp.args[2]
GenSwept == lastOp.args[3]

\* C16: generate_code on a block that is in a slot and has output_enabled
\* returns its resolved output value, one fragment with no line end; the
\* statement form (a line with a line end) is produced only for a block
\* with no parent_slot.
C16_ExpressionDispatch ==
    (/\ lastOp.op = "generate_code"
     /\ parent_slot[GenBlock] # NoSlot
     /\ block_definitions[block_type[GenBlock]].output_enabled)
    => (/\ lastOp.ret = get_output_value(Cur, GenBlock, GenSwept)
        /\ ~EndsWith(lastOp.ret, "\n"))

\* the line of the block itself, as its template renders it at a level
OwnLine(st, b, level, swept) ==
    LET text == process_template(st, b, templates[st.block_type[b]].code_template, swept)
    IN IF text = "" THEN "" ELSE Indent(level) \o text \o "\n"

\* C17: for a block with has_children and an empty child_blocks,
\* generate_code(n) emits after the block's own line (which may be no text
\* at all) one body line: (n+1)*4 spaces followed by pass.
C17_EmptyBody ==
    (/\ lastOp.op = "generate_code"
     /\ has_children(Cur, GenBlock)
     /\ child_blocks[GenBlock] = <<>>)
    => StartsWith(lastOp.ret,
                  OwnLine(Cur, GenBlock, GenLevel, GenSwept)
                     \o Spaces((GenLevel + 1) * 4) \o "pass\n")

\* C18: for a block whose definition has has_else_children, the code ends
\* with the else_template on a line at level n, followed by the code of the
\* members of else_blocks at level n+1, or by one pass line at level n+1
\* when else_blocks is empty.
C18_ElseBranch ==
    (/\ lastOp.op = "generate_code"
     /\ has_else(Cur, GenBlock))
    => EndsWith(lastOp.ret,
                Indent(GenLevel) \o templates[block_type[GenBlock]].else_template \o "\n"
                   \o (IF else_blocks[GenBlock] = <<>>
                       THEN Indent(GenLevel + 1) \o "pass\n"
                       ELSE children_code(Cur, else_blocks[GenBlock], GenLevel + 1,
                                          GenSwept).value))

\* the name a replacement field asks for
FieldName(part) == part.path[Len(part.path)]

\* a template rendered with every field whose name is no input replaced by
\* the empty string
RECURSIVE LenientFormat(_, _)
LenientFormat(template, input_values_) ==
    IF template = <<>> THEN ""
    ELSE LET part == Head(template)
         IN (IF part.kind = "lit" THEN part.text
             ELSE Get(input_values_, FieldName(part), ""))
            \o LenientFormat(Tail(template), input_values_)

\* C19: when the code_template has a placeholder whose name is none of the
\* block's inputs, the line of the block is the template with that
\* placeholder replaced by the empty string and everything else rendered
\* normally; it is not an error message.
C19_UnresolvedPlaceholder ==
    (/\ lastOp.op = "generate_code"
     /\ ~GenSwept
     /\ \E i \in DOMAIN templates[block_type[GenBlock]].code_template :
           LET part == templates[block_type[GenBlock]].code_template[i]
           IN part.kind = "field" /\ FieldName(part) \notin InputsOf(block_type[GenBlock]))
    => StartsWith(lastOp.ret,
                  Indent(GenLevel)
                     \o LenientFormat(templates[block_type[GenBlock]].code_template,
                                      input_values[GenBlock])
                     \o "\n")

\* ------------------------------------------------- loading any document
MaxEntries == 2

\* the entries a document can hold: two blocks the configuration defines,
\* a block type it does not define, an entry that is no object, and an
\* entry whose position is no object
DocumentEntries ==
    {[block_type |-> "Value", position |-> [x |-> 0, y |-> 0]],
     [block_type |-> "If", position |-> [x |-> 0, y |-> 0]],
     [block_type |-> UnknownType, position |-> [x |-> 0, y |-> 0]],
     JsonNull,
     [block_type |-> "Value", position |-> JsonNull]}

Documents ==
    {[blocks |-> entries] :
        entries \in UNION {[1 .. n -> DocumentEntries] : n \in 1 .. MaxEntries}}

LoadWorkspace(data) ==
    /\ Cardinality(created) + Len(data.blocks) <= MaxBlocks
    /\ LET r == load_workspace(Cur, data)
       IN /\ Commit(r.st)
          /\ lastOp' = [op |-> "load_workspace", ret |-> r.ret, args |-> <<data>>]
          /\ Emits(TRUE, r.st)
    /\ UNCHANGED <<rules, watched>>

NextLoad ==
    \/ \E t \in Types : AddBlock(t)
    \/ \E data \in Documents : LoadWorkspace(data)

SpecLoad == Init /\ [][NextLoad]_vars

\* the block types of the entries that can be deserialized, in document order
Loadable(entries) ==
    LET ok == SelectSeq(entries,
                        LAMBDA e : /\ ~entry_raises(e)
                                   /\ get_block_definition(Get(e, "block_type", "")).found)
    IN [i \in DOMAIN ok |-> ok[i].block_type]

\* C20: after load_workspace(data), whatever entries of the document cannot
\* be deserialized (unknown block_type, an entry that is no object, a
\* malformed position), the workspace holds one block for every other
\* entry of the document, those before and those after, in document order.
C20_LoadIsolation ==
    lastOp.op = "load_workspace"
    => [i \in DOMAIN blocks |-> block_type[blocks[i]]] = Loadable(lastOp.args[1].blocks)

\* C23: for a block with has_children and a non-empty child_blocks,
\* generate_code(n) emits the block's own line at level n and then the code
\* of the members of child_blocks in sequence order, each generated at level
\* n+1, every line of it starting with at least (n+1)*4 spaces.
C23_BodyGeneration ==
    (/\ lastOp.op = "generate_code"
     /\ has_children(Cur, GenBlock)
     /\ child_blocks[GenBlock] # <<>>)
    => LET body == children_code(Cur, child_blocks[GenBlock], GenLevel + 1, GenSwept).value
       IN /\ \A i \in DOMAIN splitlines(body) :
                StartsWith(splitlines(body)[i], Spaces((GenLevel + 1) * 4))
          /\ StartsWith(lastOp.ret, OwnLine(Cur, GenBlock, GenLevel, GenSwept) \o body)

\* C25: the value of a slot with no nested block is the slot's default
\* text; of a slot holding an output_enabled block, that block's generated
\* code with trailing whitespace removed; of a slot holding a block that is
\* not output_enabled, that block's output_value, or else its
\* code_template, with its inputs substituted.
C25_SlotValue ==
    \A s \in LiveSlots(Cur) :
        LET nested == nested_block[s]
            t == block_type[nested]
            value == slot_get_value(Cur, s, FALSE)
        IN IF nested = None THEN value = DefaultOf(block_type[s[1]], s[2])
           ELSE TreeAt(Cur, nested) =>
                IF block_definitions[t].output_enabled
                THEN value = rstrip(generate_code(Cur, nested, 0, FALSE).value)
                ELSE value = process_template(Cur, nested,
                                 IF templates[t].output_value # <<>>
                                 THEN templates[t].output_value
                                 ELSE templates[t].code_template, FALSE)

\* ------------------------------------------------ attaching to slots only
NextAttach ==
    \/ \E t \in Types \cup {UnknownType} : AddBlock(t)
    \/ \E s \in Slots, b \in Ids : AddBlockToSlot(b, s)
    \/ \E s \in Slots, t \in Types \cup {UnknownType} : HandleSlotDropNew(s, t)
    \/ \E s \in Slots, b \in Ids : HandleSlotDropExisting(s, b)

\* under every nesting-rules table of the validator runs
SpecAttach == InitRules /\ [][NextAttach]_vars

\* C28: after any sequence of attaches to slots, no block is nested below
\* itself, and every block held in a slot is reached by nesting from a
\* top-level block of the workspace list.
C28_AcyclicNesting ==
    /\ \A b \in Live(Cur) : b \notin Descendants(Cur, b)
    /\ \A b \in Live(Cur) : parent_slot[b] # NoSlot => b \in Generated(Cur)

\* C24: a block whose definition has direct_code_enabled emits its raw code
\* text, each non-blank line behind n*4 spaces, only while its toggle is in
\* the direct-code position; in block mode generate_code renders its
\* code_template with the resolved input values, like any other block.
C24_DirectCodeDispatch ==
    (/\ lastOp.op = "generate_code"
     /\ ~GenSwept
     /\ block_definitions[block_type[GenBlock]].direct_code_enabled)
    => IF GenBlock \in toggle_checked
       THEN lastOp.ret = direct_code(input_values[GenBlock]["code"], GenLevel)
       ELSE lastOp.ret = OwnLine(Cur, GenBlock, GenLevel, GenSwept)

\* ------------------------------------------------------------ hot reload
\* the disk the loader is constructed on: each watched file is missing,
\* well-formed, or present but not valid JSON
StartDisks ==
    [ConfigFiles -> {ConfigFile(FALSE, 0, FALSE, FALSE),
                     ConfigFile(TRUE, 1, TRUE, FALSE),
                     ConfigFile(TRUE, 1, FALSE, FALSE)}]

InitSettings ==
    /\ TreeInit
    /\ rules \in WorkspaceRuleTables
    /\ WindowInit
    /\ \E disk \in StartDisks : WatchedIs(disk)
    /\ lastOp = Op("init", TRUE)

\* the latest modification time on the disk
Newest == CHOOSE m \in 0 .. MaxMtime : /\ \E f \in ConfigFiles : config_files[f].mtime = m
                                       /\ \A f \in ConfigFiles : config_files[f].mtime <= m

\* somebody writes a configuration file, well-formed or not
WriteConfig(f, valid) ==
    /\ Newest < MaxMtime
    /\ config_files' = [config_files EXCEPT ![f] = ConfigFile(TRUE, Newest + 1, valid, TRUE)]
    /\ lastOp' = Op("write", TRUE)
    /\ UNCHANGED <<tree, rules, window, last_modified, settings_data>>

\* MainWindow.check_settings_changes, on the timer: check_for_changes, and
\* the refresh of the style and the palette when it answers True
CheckSettingsChanges ==
    /\ LET r == check_for_changes(config_files, last_modified, settings_data)
       IN /\ last_modified' = r.lm
          /\ settings_data' = r.data
          /\ config_files' = IF r.changed THEN opened(config_files) ELSE config_files
          /\ lastOp' = [op |-> "check_for_changes", ret |-> r.changed,
                        args |-> <<{f \in ConfigFiles : config_files[f].unread},
                                   settings_data>>]
    /\ UNCHANGED <<tree, rules, window>>

NextSettings ==
    \/ \E f \in ConfigFiles, valid \in BOOLEAN : WriteConfig(f, valid)
    \/ CheckSettingsChanges

SpecSettings == InitSettings /\ [][NextSettings]_vars

\* C27: check_for_changes returns True, and reloads, only when some watched
\* file was written after the loader last read it; a file that did not
\* parse at start-up and was not touched since is not such a file.
\* Otherwise it returns False and the settings are what they were.  (Two
\* calls with no write in between are then never both True.)
C27_HotReload ==
    lastOp.op = "check_for_changes"
    => /\ lastOp.ret => lastOp.args[1] # {}
       /\ ~lastOp.ret => settings_data = lastOp.args[2]

\* C26: after every operation that changes the block tree has completed,
\* update_code has run again: the code the window was last handed by
\* codeChanged is the code of the current tree.
C26_NoStaleCode ==
    \E swept \in BOOLEAN : code_preview = clean_code(update_code(Cur, swept))

\* ---------------------------------------------------------------- running
\* MainWindow.on_run: the text handed to exec
OnRun ==
    /\ lastOp' = Op("on_run", on_run(code_preview))
    /\ UNCHANGED <<tree, rules, outside>>

NextRun == OnRun

\* on_run over the workspaces code is generated for
SpecRun == InitGen /\ [][NextRun]_vars

\* C30: the text on_run executes has the lines of the code generated for
\* the current workspace, in the same order, each with its indentation
\* (the first line of the generated code has none), so the body of a
\* container is still indented under its header.
C30_RunPreservesStructure ==
    (/\ lastOp.op = "on_run"
     /\ lastOp.ret # ""
     /\ code_preview = clean_code(update_code(Cur, FALSE)))
    => splitlines(lastOp.ret) = splitlines(update_code(Cur, FALSE))

\* ------------------------------------------------------- project files
\* a file that is no JSON document, like one whose writing stopped half way
Partial == [kind |-> "partial"]

\* what json.dump writes for the workspace document data
ProjectFile(data) == [kind |-> "project", workspace |-> data]

\* the fields of the window that saving and loading touch
Window == [current_file_path |-> current_file_path,
           code_changed_since_save |-> code_changed_since_save,
           files |-> files]

\* how open() and json.dump end: both succeed, open raises, or the write
\* raises after the file was opened (and truncated) for writing
IoOutcomes == {"ok", "open fails", "write fails"}

\* MainWindow.save_project
save_project(st, w, file_path, io) ==
    CASE io = "open fails" -> [w |-> w, ret |-> FALSE]
      [] io = "write fails" -> [w |-> [w EXCEPT !.files[file_path] = Partial], ret |-> FALSE]
      [] OTHER -> [w |-> [w EXCEPT !.files[file_path] = ProjectFile(save_workspace(st)),
                                   !.current_file_path = file_path,
                                   !.code_changed_since_save = FALSE],
                   ret |-> TRUE]

\* MainWindow.on_save: to the current file, or else on_save_as with the path
\* the dialog answers (NoPath when it is cancelled).  saved tells whether
\* save_project returned True; on_save itself returns nothing.
on_save(st, w, chosen, io) ==
    LET file_path == IF w.current_file_path # NoPath THEN w.current_file_path ELSE chosen
    IN IF file_path = NoPath THEN [w |-> w, saved |-> FALSE]
       ELSE LET r == save_project(st, w, file_path, io)
            IN [w |-> r.w, saved |-> r.ret]

\* MainWindow.check_unsaved_changes; ret is the value returned: "True",
\* "False", or "None" for the result of on_save()
check_unsaved_changes(st, w, reply, chosen, io) ==
    IF w.code_changed_since_save /\ reply = "Save"
    THEN LET r == on_save(st, w, chosen, io)
         IN [w |-> r.w, ret |-> "None", saved |-> r.saved]
    ELSE IF w.code_changed_since_save /\ reply = "Cancel"
    THEN [w |-> w, ret |-> "False", saved |-> FALSE]
    ELSE [w |-> w, ret |-> "True", saved |-> FALSE]

\* the documents a project file can hold: what save_project wrote for one
\* block, and a document whose second entry is null
FileContents ==
    {Absent, Partial,
     ProjectFile([blocks |-> <<[block_type |-> "Value"]>>]),
     ProjectFile([blocks |-> <<[block_type |-> "If"], JsonNull>>])}

InitProject ==
    /\ TreeInit
    /\ rules \in WorkspaceRuleTables
    /\ code_preview = ""
    /\ code_changed_since_save = FALSE
    /\ current_file_path = NoPath
    /\ \E content \in FileContents :
          files = [p \in Paths |-> IF p = "a.pbcp" THEN content ELSE Absent]
    /\ WatchedIs(GoodDisk)
    /\ lastOp = Op("init", TRUE)

\* save_project(file_path), as on_save_as and on_autosave call it
SaveProject(file_path, io) ==
    /\ LET r == save_project(Cur, Window, file_path, io)
       IN /\ current_file_path' = r.w.current_file_path
          /\ code_changed_since_save' = r.w.code_changed_since_save
          /\ files' = r.w.files
          /\ lastOp' = [op |-> "save_project", ret |-> r.ret,
                        args |-> <<file_path, files[file_path],
                                   current_file_path, code_changed_since_save>>]
    /\ UNCHANGED <<tree, rules, watched, code_preview>>

\* MainWindow.load_project: a missing file and a file that is no JSON raise
\* before anything is touched; load_workspace clears the workspace, emits
\* the code, and answers False when an entry fails
LoadProject(file_path) ==
    /\ IF files[file_path].kind # "project"
       THEN /\ lastOp' = [op |-> "load_project", ret |-> FALSE,
                          args |-> <<blocks, current_file_path,
                                     code_changed_since_save>>]
            /\ UNCHANGED <<tree, window>>
       ELSE /\ Cardinality(created) + Len(files[file_path].workspace.blocks) <= MaxBlocks
            /\ LET r == load_workspace(Cur, files[file_path].workspace)
               IN /\ Commit(r.st)
                  /\ code_preview' = clean_code(update_code(r.st, FALSE))
                  /\ code_changed_since_save' = ~r.ret
                  /\ current_file_path' = IF r.ret THEN file_path ELSE current_file_path
                  /\ lastOp' = [op |-> "load_project", ret |-> r.ret,
                                args |-> <<blocks, current_file_path,
                                     code_changed_since_save>>]
            /\ UNCHANGED files
    /\ UNCHANGED <<rules, watched>>

\* what the user and the file system answer during check_unsaved_changes:
\* no dialog is shown without unsaved changes, the file dialog is shown only
\* on Save without a current file, and a file is written only when a path
\* is known
NoAnswer == [reply |-> "none", chosen |-> NoPath, io |-> "ok"]

Answers ==
    IF ~code_changed_since_save THEN {NoAnswer}
    ELSE {[NoAnswer EXCEPT !.reply = r] : r \in {"Discard", "Cancel"}}
         \cup {[reply |-> "Save", chosen |-> c, io |-> io] :
                  c \in (IF current_file_path # NoPath THEN {NoPath} ELSE Paths),
                  io \in IoOutcomes}
         \cup (IF current_file_path # NoPath THEN {}
               ELSE {[NoAnswer EXCEPT !.reply = "Save"]})

\* MainWindow.on_new: goes on when check_unsaved_changes answers a true
\* value; then the workspace is cleared (which emits the code) and the
\* window forgets its file
OnNew(a) ==
    /\ LET c == check_unsaved_changes(Cur, Window, a.reply, a.chosen, a.io)
       IN /\ files' = c.w.files
          /\ lastOp' = [op |-> "on_new", ret |-> c.ret,
                        args |-> <<a.reply, c.saved, code_changed_since_save>>]
          /\ IF c.ret = "True"
             THEN /\ Commit(clear_workspace(Cur))
                  /\ code_preview' = clean_code(update_code(clear_workspace(Cur), FALSE))
                  /\ current_file_path' = NoPath
                  /\ code_changed_since_save' = FALSE
             ELSE /\ current_file_path' = c.w.current_file_path
                  /\ code_changed_since_save' = c.w.code_changed_since_save
                  /\ UNCHANGED <<tree, code_preview>>
    /\ UNCHANGED <<rules, watched>>

\* MainWindow.closeEvent: the event is accepted when check_unsaved_changes
\* answers a true value, and ignored otherwise
CloseEvent(a) ==
    /\ LET c == check_unsaved_changes(Cur, Window, a.reply, a.chosen, a.io)
       IN /\ files' = c.w.files
          /\ current_file_path' = c.w.current_file_path
          /\ code_changed_since_save' = c.w.code_changed_since_save
          /\ lastOp' = [op |-> "closeEvent", ret |-> c.ret,
                        args |-> <<a.reply, c.saved, code_changed_since_save>>]
    /\ UNCHANGED <<tree, rules, watched, code_preview>>

NextProject ==
    \/ \E t \in {"Value", "If"} : AddBlock(t)
    \/ \E file_path \in Paths, io \in IoOutcomes : SaveProject(file_path, io)
    \/ \E file_path \in Paths : LoadProject(file_path)
    \/ \E a \in Answers : OnNew(a)
    \/ \E a \in Answers : CloseEvent(a)

SpecProject == InitProject /\ [][NextProject]_vars

\* C21: when save_project returns False, the destination file holds what it
\* held before the call, never a partly written document, and
\* current_file_path and the unsaved-changes flag are unchanged.
C21_AtomicSave ==
    (lastOp.op = "save_project" /\ ~lastOp.ret)
    => /\ files[lastOp.args[1]] = lastOp.args[2]
       /\ current_file_path = lastOp.args[3]
       /\ code_changed_since_save = lastOp.args[4]

\* C22: when load_project returns False, the workspace's block list,
\* current_file_path and the unsaved-changes flag are what they were
\* before the call.
C22_FailedLoadKeepsState ==
    (lastOp.op = "load_project" /\ ~lastOp.ret)
    => /\ blocks = lastOp.args[1]
       /\ current_file_path = lastOp.args[2]
       /\ code_changed_since_save = lastOp.args[3]

\* C29: with unsaved changes, when the user chooses Save and the save
\* succeeds, check_unsaved_changes returns True and the pending New or
\* close goes on; with Discard, or with no unsaved changes, it returns
\* True; it returns a false value only on Cancel or when the save did not
\* complete.
C29_UnsavedPrompt ==
    lastOp.op \in {"on_new", "closeEvent"}
    => LET reply == lastOp.args[1]
           saved == lastOp.args[2]
           unsaved == lastOp.args[3]
       IN IF unsaved /\ reply = "Save" /\ saved THEN lastOp.ret = "True"
          ELSE IF ~unsaved \/ reply = "Discard" THEN lastOp.ret = "True"
          ELSE lastOp.ret # "True"

====
